---- MODULE Spec2Model ----
(***************************************************************************)
(* A model of the system monitoring tool of src/Assignment1.c: the command *)
(* line parser, the CPU utilization tracker, the canvas layout of the      *)
(* panels and the sampling loop of main.                                   *)
(*                                                                         *)
(* Numbers.  The C types are LP64 Linux types: long and unsigned long are  *)
(* 64 bits, int and useconds_t are 32 bits.  A 64-bit quantity is kept as  *)
(* a little-endian sequence of 16-bit limbs, so that the narrowing         *)
(* conversions of the code keep their width.  long double values are kept  *)
(* exactly, as reduced fractions [num, den]; rounding of the floating      *)
(* point unit is not modelled.                                             *)
(*                                                                         *)
(* Strings are sequences of one-character strings.                         *)
(***************************************************************************)
EXTENDS Integers, Sequences, FiniteSets, TLC

(***************************************************************************)
(* Bounds of the model.                                                    *)
(***************************************************************************)
\* the longest argument vector the parser is explored on (argc - 1)
MaxArgs == 3
\* the longest argument vector a whole run is explored on
MaxRunArgs == 3
\* the sampling loop is explored up to this many iterations
MaxIter == 22
\* the largest core count /proc/cpuinfo is taken to list
MaxCores == 6
\* total memory of the host, in GiB
TotalRamGB == 8
\* a glyph is followed through the rest of the run in runs of at most this many
\* samples
MaxTracked == 3

(***************************************************************************)
(* Limb arithmetic.                                                        *)
(***************************************************************************)
Base == 256 * 256
HalfBase == Base \div 2

Zero4 == <<0, 0, 0, 0>>
\* LONG_MAX = 2^63 - 1
LONG_MAX_limbs == <<Base - 1, Base - 1, Base - 1, HalfBase - 1>>

RECURSIVE MulAdd10(_, _)
\* limbs * 10 + carry, on as many limbs as given (the carry out is dropped)
MulAdd10(l, carry) ==
    IF l = <<>> THEN <<>>
    ELSE LET t == Head(l) * 10 + carry
         IN  <<t % Base>> \o MulAdd10(Tail(l), t \div Base)

Digits == {"0", "1", "2", "3", "4", "5", "6", "7", "8", "9"}
DigitVal == ("0" :> 0) @@ ("1" :> 1) @@ ("2" :> 2) @@ ("3" :> 3) @@ ("4" :> 4)
            @@ ("5" :> 5) @@ ("6" :> 6) @@ ("7" :> 7) @@ ("8" :> 8) @@ ("9" :> 9)

RECURSIVE DecValue(_, _)
\* the number a digit string denotes, on the limbs of acc
DecValue(ds, acc) ==
    IF ds = <<>> THEN acc
    ELSE DecValue(Tail(ds), MulAdd10(acc, DigitVal[Head(ds)]))

\* a 32-bit int as five limbs (the negative ones have no such form: <<>>)
IntLimbs(n) == IF n < 0 THEN <<>> ELSE <<n % Base, n \div Base, 0, 0, 0>>

(***************************************************************************)
(* <ctype.h>, <string.h>, <stdlib.h>                                       *)
(***************************************************************************)
isdigit(c) == c \in Digits
isspace(c) == c \in {" ", "\t", "\n"}

RECURSIVE removeWhiteSpace(_)
removeWhiteSpace(str) ==
    IF str # <<>> /\ isspace(Head(str)) THEN removeWhiteSpace(Tail(str)) ELSE str

\* strncmp(s, prefix, Len(prefix)) == 0
HasPrefix(s, prefix) ==
    Len(s) >= Len(prefix) /\ SubSeq(s, 1, Len(prefix)) = prefix

RECURSIVE DigitPrefix(_)
DigitPrefix(s) ==
    IF s # <<>> /\ isdigit(Head(s)) THEN <<Head(s)>> \o DigitPrefix(Tail(s)) ELSE <<>>

\* strtol(str, &endptr, 10): white space, an optional sign, the digits; the value
\* saturates at LONG_MAX (LONG_MIN); endptr is the start of the string when there
\* is no digit.  mag is the magnitude on four limbs, atEnd says *endptr == '\0'.
strtol(str) ==
    LET s1     == removeWhiteSpace(str)
        signed == s1 # <<>> /\ Head(s1) \in {"+", "-"}
        neg    == s1 # <<>> /\ Head(s1) = "-"
        s2     == IF signed THEN Tail(s1) ELSE s1
        ds     == DigitPrefix(s2)
        wide   == DecValue(ds, <<0, 0, 0, 0, 0>>)
        over   == wide[5] # 0 \/ wide[4] >= HalfBase
    IN  IF ds = <<>>
        THEN [mag |-> Zero4, neg |-> FALSE, atEnd |-> (str = <<>>)]
        ELSE [mag   |-> IF over THEN (IF neg THEN <<0, 0, 0, HalfBase>> ELSE LONG_MAX_limbs)
                        ELSE SubSeq(wide, 1, 4),
              neg   |-> neg,
              atEnd |-> (Len(ds) = Len(s2))]

\* value <= 0, for a long
NotPositive(v) == v.neg \/ v.mag = Zero4

\* (int)value for a positive long: the low 32 bits, two's complement
ToInt(mag) ==
    IF mag[2] < HalfBase THEN mag[2] * Base + mag[1]
    ELSE (mag[2] - Base) * Base + mag[1]

\* the useconds_t a 64-bit unsigned long converts to: its low 32 bits
ToUseconds(mag) == <<mag[1], mag[2]>>

(***************************************************************************)
(* ArgsInfo                                                                *)
(***************************************************************************)
DefaultSamples == 20
\* 500000 as limbs
DefaultTdelay == <<500000 % Base, 500000 \div Base, 0, 0>>

\* the structure initializeArgument returns (argc and argv are the variable argv)
initializeArgument ==
    [memory_flag |-> FALSE, cpu_flag |-> FALSE, cores_flag |-> FALSE,
     samples |-> DefaultSamples, tdelay |-> DefaultTdelay,
     updated_sample |-> FALSE, updated_tdelay |-> FALSE]

Str_memory  == <<"-", "-", "m", "e", "m", "o", "r", "y">>
Str_cpu     == <<"-", "-", "c", "p", "u">>
Str_cores   == <<"-", "-", "c", "o", "r", "e", "s">>
Str_samples == <<"-", "-", "s", "a", "m", "p", "l", "e", "s", "=">>
Str_tdelay  == <<"-", "-", "t", "d", "e", "l", "a", "y", "=">>

\* every character is a digit (the empty string passes)
isPositional(arg) == \A k \in 1..Len(arg) : isdigit(arg[k])

\* isFlag on one argument: [ok, info], info being the structure as isFlag leaves it
isFlag(info, arg) ==
    IF Len(arg) = 0 THEN [ok |-> FALSE, info |-> info]
    ELSE IF arg = Str_memory THEN [ok |-> TRUE, info |-> [info EXCEPT !.memory_flag = TRUE]]
    ELSE IF arg = Str_cpu THEN [ok |-> TRUE, info |-> [info EXCEPT !.cpu_flag = TRUE]]
    ELSE IF arg = Str_cores THEN [ok |-> TRUE, info |-> [info EXCEPT !.cores_flag = TRUE]]
    ELSE IF HasPrefix(arg, Str_samples)
    THEN LET value_str == SubSeq(arg, 11, Len(arg))
             value     == strtol(removeWhiteSpace(value_str))
         IN  IF value_str = <<>> \/ info.updated_sample
                \/ ~value.atEnd \/ NotPositive(value)
             THEN [ok |-> FALSE, info |-> info]
             ELSE [ok |-> TRUE,
                   info |-> [info EXCEPT !.samples = ToInt(value.mag),
                                         !.updated_sample = TRUE]]
    ELSE IF HasPrefix(arg, Str_tdelay)
    THEN LET value_str == SubSeq(arg, 10, Len(arg))
             value     == strtol(removeWhiteSpace(value_str))
         IN  IF value_str = <<>> \/ info.updated_tdelay
                \/ ~value.atEnd \/ NotPositive(value)
             THEN [ok |-> FALSE, info |-> info]
             ELSE [ok |-> TRUE,
                   info |-> [info EXCEPT !.tdelay = value.mag,
                                         !.updated_tdelay = TRUE]]
    ELSE [ok |-> FALSE, info |-> info]

RECURSIVE FlagLoop_skip(_, _, _)
\* the for loop going on to the next argument when isFlag refuses one
FlagLoop_skip(info, args, index) ==
    IF index > Len(args) THEN [ret |-> 0, info |-> info]
    ELSE FlagLoop_skip(isFlag(info, args[index]).info, args, index + 1)

RECURSIVE FlagLoop(_, _, _)
\* the for loop of processCommandLineArguments, from argv[index] on (argv without
\* the program name, index from 1)
FlagLoop(info, args, index) ==
    IF index > Len(args) THEN [ret |-> 0, info |-> info]
    ELSE LET r == isFlag(info, args[index])
         IN  IF ~r.ok THEN [ret |-> -1, info |-> r.info]
             ELSE FlagLoop(r.info, args, index + 1)

\* the positional tdelay, argv[2]
PositionalTdelay(info, args) ==
    IF Len(args) >= 2 /\ isPositional(args[2])
    THEN LET value == strtol(args[2])
         IN  IF ~value.atEnd \/ NotPositive(value)
             THEN [ret |-> -1, info |-> info]
             ELSE FlagLoop([info EXCEPT !.tdelay = value.mag, !.updated_tdelay = TRUE],
                           args, 3)
    ELSE FlagLoop(info, args, 2)

AllPanels(info) ==
    IF ~info.cores_flag /\ ~info.cpu_flag /\ ~info.memory_flag
    THEN [info EXCEPT !.cores_flag = TRUE, !.cpu_flag = TRUE, !.memory_flag = TRUE]
    ELSE info

\* processCommandLineArguments: [ret, info]
processCommandLineArguments(args, info) ==
    IF Len(args) = 0
    THEN [ret |-> 0, info |-> AllPanels(info)]
    ELSE LET r == IF isPositional(args[1])
                  THEN LET value == strtol(args[1])
                       IN  IF ~value.atEnd \/ NotPositive(value)
                           THEN [ret |-> -1, info |-> info]
                           ELSE PositionalTdelay(
                                    [info EXCEPT !.samples = ToInt(value.mag),
                                                 !.updated_sample = TRUE], args)
                  ELSE FlagLoop(info, args, 1)
         IN  IF r.ret = -1 THEN r ELSE [ret |-> 0, info |-> AllPanels(r.info)]

(***************************************************************************)
(* The argument vectors explored: by the parser alone, and by whole runs.  *)
(***************************************************************************)
Num_3      == <<"3">>
Num_30     == <<"3", "0">>
Num_1e6    == <<"1", "0", "0", "0", "0", "0", "0">>
\* 2^32 + 1, 2^32, 2^31 and 2^63
Num_2p32_1 == <<"4", "2", "9", "4", "9", "6", "7", "2", "9", "7">>
Num_2p32   == <<"4", "2", "9", "4", "9", "6", "7", "2", "9", "6">>
Num_2p31   == <<"2", "1", "4", "7", "4", "8", "3", "6", "4", "8">>
Num_2p63   == <<"9", "2", "2", "3", "3", "7", "2", "0", "3", "6", "8", "5", "4", "7", "7", "5",
                "8", "0", "8">>
\* 2^32 + 5
Num_2p32_5 == <<"4", "2", "9", "4", "9", "6", "7", "3", "0", "1">>

Tokens ==
    { Str_memory, Str_cpu, Str_cores,
      Str_samples \o <<"5">>,
      Str_samples,
      Str_samples \o <<" ", "+", "3">>,
      Str_samples \o Num_2p32_1,
      Str_tdelay \o Num_2p32_5,
      Str_tdelay \o <<"9", "x">>,
      Num_3, Num_30, Num_1e6, <<"0">>, Num_2p32_1, Num_2p32, Num_2p31, Num_2p63,
      <<"-", "-">>, <<"c", "p", "u">> }

Argvs == UNION { [1..n -> Tokens] : n \in 0..MaxArgs }

RunTokens ==
    { Str_memory, Str_cpu, Str_cores,
      Str_samples \o <<"2", "1">>,
      Str_tdelay \o Num_2p32_5,
      Num_3, Num_2p32_1,
      <<"c", "p", "u">> }

RunArgvs == UNION { [1..n -> RunTokens] : n \in 0..MaxRunArgs }

(***************************************************************************)
(* long double values, kept exactly as reduced fractions.                  *)
(***************************************************************************)
Abs(n) == IF n < 0 THEN -n ELSE n

RECURSIVE GCD(_, _)
GCD(a, b) == IF b = 0 THEN a ELSE GCD(b, a % b)

\* n / d, d # 0, reduced, with a positive denominator
Frac(n, d) ==
    LET g == GCD(Abs(n), Abs(d))
        s == IF d < 0 THEN -1 ELSE 1
    IN  [num |-> s * (n \div g), den |-> s * (d \div g)]

FracOfInt(n) == [num |-> n, den |-> 1]

\* x to the nearest integer, halves away from zero
Trunc_nearest(x) ==
    IF x.num >= 0 THEN (2 * x.num + x.den) \div (2 * x.den)
    ELSE -((2 * (-x.num) + x.den) \div (2 * x.den))

\* (int)x: truncation toward zero
Trunc(x) == IF x.num >= 0 THEN x.num \div x.den ELSE -((-x.num) \div x.den)

(***************************************************************************)
(* The host, as the calls of the program see it.                           *)
(***************************************************************************)
\* sysinfo(): -1, or the totals (here in GiB: mem_unit is taken to be 1 GiB)
SysinfoResults ==
    {[ok |-> FALSE, totalram |-> 0, freeram |-> 0]}
    \cup {[ok |-> TRUE, totalram |-> TotalRamGB, freeram |-> f] :
             f \in {0, TotalRamGB \div 2 + 1, TotalRamGB}}

\* the first line of /proc/stat
Snap(user, system, idle, iowait) ==
    [user |-> user, nice |-> 0, system |-> system, idle |-> idle, iowait |-> iowait,
     irq |-> 0, softirq |-> 0, steal |-> 0]

\* counters that grow (40,10,45,5 then 160,40,90,10), counters that do not, and
\* counters that read zero
Snapshots ==
    { Snap(0, 0, 0, 0), Snap(40, 10, 45, 5), Snap(160, 40, 90, 10),
      Snap(80, 10, 15, 5), Snap(15, 5, 95, 5) }

\* how one read of /proc/stat ends: fopen fails, fscanf does not convert the
\* fields (they keep indeterminate values), fclose fails, or all is read
ReadOutcomes == {"open_fail", "parse_fail", "close_fail", "ok"}

\* /proc/cpuinfo: unreadable (-1) or so many processor lines
CoresResults == (-1)..MaxCores

\* cpuinfo_max_freq, in kHz
FreqChoicesKHz == {3500000}
FreqOutcomes == {"open_fail", "parse_fail", "ok"}

(***************************************************************************)
(* The CPU utilization tracker.                                            *)
(***************************************************************************)
TotalOf(s) == s.user + s.nice + s.system + s.idle + s.iowait + s.irq + s.softirq + s.steal
IdleOf(s) == s.idle + s.iowait

\* calculate_cpu_utilization: t is the four long doubles main passes by
\* reference, s the fields after fscanf; [ret, t]
calculate_cpu_utilization(t, outcome, s) ==
    IF outcome = "open_fail" THEN [ret |-> FracOfInt(0), t |-> t]
    ELSE IF outcome = "close_fail" THEN [ret |-> FracOfInt(-1), t |-> t]
    ELSE LET currentTotalCPU == TotalOf(s)
             currentIdleCPU  == IdleOf(s)
         IN  IF t.preTotalCPU = 0 /\ t.preIdleCPU = 0
             THEN [ret |-> FracOfInt(0),
                   t   |-> [t EXCEPT !.preTotalCPU = currentTotalCPU,
                                     !.preIdleCPU = currentIdleCPU]]
             ELSE LET U_initial   == t.preTotalCPU - t.preIdleCPU
                      U_final     == currentTotalCPU - currentIdleCPU
                      delta_total == U_final - U_initial
                      delta_idle  == currentTotalCPU - t.preTotalCPU
                      t2 == [preTotalCPU |-> currentTotalCPU,
                             preIdleCPU |-> currentIdleCPU,
                             finalTotalCPU |-> currentTotalCPU,
                             finalIdleCPU |-> currentIdleCPU]
                  IN  IF delta_total = 0 \/ delta_idle = 0
                      THEN [ret |-> FracOfInt(0), t |-> t2]
                      ELSE [ret |-> Frac(delta_total * 100, delta_idle), t |-> t2]

(***************************************************************************)
(* The canvas.  A piece of ink is [row, col, len, owner, what].            *)
(***************************************************************************)
NoPos == [row |-> 0, col |-> 0]
save_position(row, col) == [row |-> row, col |-> col]

Ink(row, col, len, owner, what) ==
    [row |-> row, col |-> col, len |-> len, owner |-> owner, what |-> what]

RECURSIVE NumDigits(_)
NumDigits(n) == IF n < 10 THEN 1 ELSE 1 + NumDigits(n \div 10)

MinSamples == 20

\* draw_graph without the *current_row += height of line 542
draw_graph_flat(owner, label_len, unit_len, height, baseline_len, current_row, current_column, samples) ==
    LET pos  == save_position(current_row, current_column + label_len + 1)
        row1 == current_row + 1
        col1 == current_column + 8
        row2 == row1 + height
        n    == IF samples < MinSamples THEN MinSamples ELSE samples
    IN  [pos |-> pos,
         row |-> row1 + 1,
         col |-> col1,
         ink |-> {Ink(current_row, current_column, label_len, owner, "heading"),
                  Ink(row1, current_column, 1 + unit_len, owner, "unit")}
                 \cup {Ink(row1 + k, col1, 1, owner, "axis") : k \in 0..(height - 1)}
                 \cup {Ink(row2, col1 - baseline_len - 2, 1 + baseline_len, owner, "baseline"),
                       Ink(row2, col1, n + 1, owner, "rule")}]

\* draw_graph: the position of the readout, the row and column it leaves in
\* *current_row and *current_column, and the ink it prints
draw_graph(owner, label_len, unit_len, height, baseline_len, current_row, current_column, samples) ==
    LET pos  == save_position(current_row, current_column + label_len + 1)
        row1 == current_row + 1
        col1 == current_column + 8
        row2 == row1 + height
        n    == IF samples < MinSamples THEN MinSamples ELSE samples
    IN  [pos |-> pos,
         row |-> row2 + 1,
         col |-> col1,
         ink |-> {Ink(current_row, current_column, label_len, owner, "heading"),
                  Ink(row1, current_column, 1 + unit_len, owner, "unit")}
                 \cup {Ink(row1 + k, col1, 1, owner, "axis") : k \in 0..(height - 1)}
                 \cup {Ink(row2, col1 - baseline_len - 2, 1 + baseline_len, owner, "baseline"),
                       Ink(row2, col1, n + 1, owner, "rule")}]

MemHeight == 10
CpuHeight == 11

\* draw_memory_graph, max_memory being what get_total_memory returned: "v Memory ",
\* "<max_memory> GB", "0 GB"
draw_memory_graph(current_row, current_column, max_memory, samples) ==
    draw_graph("memory", 9, NumDigits(max_memory) + 3, MemHeight, 4,
               current_row, current_column, samples)

\* draw_cpu_graph: "v CPU ", "100%", "0%"
draw_cpu_graph(start_row, start_column, samples) ==
    draw_graph("cpu", 6, 4, CpuHeight, 2, start_row, start_column, samples)

NUM_NEW_LINES == 2
CoreCols == 4
CoreWidth == 6

\* the row *currentrow holds when grid row `row` of coresGraph is printed
CoreRowBase(currentrow, row) == currentrow + 3 + row

\* coresGraph with rows = coresNumber / cols, the division rounding down
coresGraph_floor(coresNumber, currentcol, currentrow) ==
    LET rows == IF coresNumber < 0 THEN 0 ELSE coresNumber \div CoreCols
        boxes == {<<row, col>> \in (0..(rows - 1)) \X (0..(CoreCols - 1)) :
                     row * CoreCols + col < coresNumber}
    IN  [ink |-> {Ink(currentrow + 2, currentcol, 30, "cores", "heading")}
                 \cup {Ink(CoreRowBase(currentrow, b[1]) + b[1] * 2 + line,
                           currentcol + b[2] * CoreWidth, 5, "cores",
                           <<"box", b[1], b[2], line>>) :
                          b \in boxes, line \in 0..2},
         pos |-> save_position(currentrow + 3 + rows + rows * 2 + 2, 1)]

\* coresGraph: the ink and the position it returns
coresGraph(coresNumber, currentcol, currentrow) ==
    LET rows == IF coresNumber + CoreCols - 1 < 0 THEN 0
                ELSE (coresNumber + CoreCols - 1) \div CoreCols
        boxes == {<<row, col>> \in (0..(rows - 1)) \X (0..(CoreCols - 1)) :
                     row * CoreCols + col < coresNumber}
    IN  [ink |-> {Ink(currentrow + 2, currentcol, 30, "cores", "heading")}
                 \cup {Ink(CoreRowBase(currentrow, b[1]) + b[1] * 2 + line,
                           currentcol + b[2] * CoreWidth, 5, "cores",
                           <<"box", b[1], b[2], line>>) :
                          b \in boxes, line \in 0..2},
         pos |-> save_position(currentrow + 3 + rows + rows * 2 + 2, 1)]

NullSnap == Snap(0, 0, 0, 0)

\* no panel has acted since the last sleep
NoEvent ==
    [panel |-> "none", outcome |-> "none", snap |-> NullSnap, ret |-> FracOfInt(0),
     prev |-> [outcome |-> "none", snap |-> NullSnap], call |-> 0,
     printed |-> FALSE, glyph |-> NoPos, prevCol |-> 0]

VARIABLES
    pc,               \* where main is
    argv,             \* argv[1..argc-1], until it is parsed
    argsInfo,         \* *argsInfo
    exit_code,        \* the exit status, -1 while the process runs
    current_row, current_column,
    scaling_factor,   \* GiB per row, as a fraction (0/1 until it is set)
    memory_heading, memory, cpu_heading, cpu, ending_position,
    tracker,          \* preTotalCPU, preIdleCPU, finalTotalCPU, finalIdleCPU
    i,                \* the loop counter of main
    ink,              \* what the one-shot renders have printed
    ev,               \* what the last step of a panel (or the warm-up call) did
    lastCall,         \* how the last call of the tracker ended, and what it read
    calls,            \* calls of the tracker so far (counted up to 2)
    memLastCol, cpuLastCol,  \* the column of the last glyph of the panel, 0 if none
    sleeps,           \* usleep calls so far
    slept,            \* the argument of the last usleep, as useconds_t
    freqRead,         \* how the read of the maximum frequency ended
    coresNumber,      \* what calculate_cores returned, -2 before it is called
    max_frequency,    \* GHz, as a fraction
    marked,           \* the cell of the glyph of one earlier sample, NoPos if none
    clobbered         \* a later operation has written the marked cell again

vars == <<pc, argv, argsInfo, exit_code, current_row, current_column, scaling_factor,
          memory_heading, memory, cpu_heading, cpu, ending_position, tracker, i, ink,
          ev, lastCall, calls, memLastCol, cpuLastCol, sleeps, slept,
          freqRead, coresNumber, max_frequency, marked, clobbered>>

layoutVars == <<current_row, current_column, scaling_factor, memory_heading, memory,
                cpu_heading, cpu, ending_position, ink>>
cpuVars == <<tracker, lastCall, calls, cpuLastCol>>
sleepVars == <<sleeps, slept>>
coreVars == <<freqRead, coresNumber, max_frequency>>
cellVars == <<marked, clobbered>>

Fresh ==
    /\ pc = "start"
    /\ argsInfo = initializeArgument
    /\ exit_code = -1
    /\ current_row = 0 /\ current_column = 0
    /\ scaling_factor = FracOfInt(0)
    /\ memory_heading = NoPos /\ memory = NoPos
    /\ cpu_heading = NoPos /\ cpu = NoPos /\ ending_position = NoPos
    /\ tracker = [preTotalCPU |-> 0, preIdleCPU |-> 0, finalTotalCPU |-> 0, finalIdleCPU |-> 0]
    /\ i = 0
    /\ ink = {}
    /\ ev = NoEvent
    /\ lastCall = [outcome |-> "none", snap |-> NullSnap]
    /\ calls = 0
    /\ memLastCol = 0 /\ cpuLastCol = 0
    /\ sleeps = 0
    /\ slept = <<0, 0>>
    /\ freqRead = "none"
    /\ coresNumber = -2
    /\ max_frequency = FracOfInt(0)
    /\ marked = NoPos /\ clobbered = FALSE

Init == argv \in RunArgvs /\ Fresh

InitArgs == argv \in Argvs /\ Fresh

\* main, lines 724-733: the arguments are parsed; a rejected vector ends the
\* process with status 1
ParseArgs ==
    /\ pc = "start"
    /\ LET r == processCommandLineArguments(argv, argsInfo)
       IN  /\ argsInfo' = r.info
           /\ pc' = IF r.ret = -1 THEN "exit" ELSE "screen"
           /\ exit_code' = IF r.ret = -1 THEN 1 ELSE exit_code
    /\ UNCHANGED <<cellVars, argv, layoutVars, cpuVars, ev, memLastCol, sleepVars, coreVars, i>>

\* main, lines 741-752: the screen is reset and the header line printed.  argv is
\* not read after the parse and is forgotten here.
ResetScreen ==
    /\ pc = "screen"
    /\ pc' = "draw_memory"
    /\ argv' = <<>>
    /\ ink' = {Ink(1, 1, 40, "header", "header")}
    /\ current_column' = 1
    /\ current_row' = 1
    /\ UNCHANGED <<cellVars, argsInfo, exit_code, scaling_factor, memory_heading, memory,
                   cpu_heading, cpu, ending_position, cpuVars, ev, memLastCol, sleepVars,
                   coreVars, i>>

\* main, lines 754-759; get_total_memory ends the process when sysinfo fails
DrawMemory ==
    /\ pc = "draw_memory"
    /\ \/ /\ ~argsInfo.memory_flag
          /\ pc' = "draw_cpu"
          /\ UNCHANGED <<exit_code, layoutVars>>
       \/ /\ argsInfo.memory_flag
          /\ \E info \in SysinfoResults :
                IF ~info.ok
                THEN /\ pc' = "exit"
                     /\ exit_code' = 1
                     /\ UNCHANGED layoutVars
                ELSE LET g == draw_memory_graph(current_row + 1, current_column,
                                                info.totalram, argsInfo.samples)
                     IN  /\ pc' = "draw_cpu"
                         /\ scaling_factor' = Frac(info.totalram, MemHeight)
                         /\ memory_heading' = g.pos
                         /\ current_row' = g.row
                         /\ current_column' = g.col
                         /\ memory' = save_position(g.row - 1, g.col + 1)
                         /\ ink' = ink \cup g.ink
                         /\ UNCHANGED <<exit_code, cpu_heading, cpu, ending_position>>
    /\ UNCHANGED <<cellVars, argv, argsInfo, cpuVars, ev, memLastCol, sleepVars, coreVars, i>>

\* main, lines 761-772
DrawCpu ==
    /\ pc = "draw_cpu"
    /\ pc' = "warmup"
    /\ \/ /\ ~argsInfo.cpu_flag
          /\ ending_position' = save_position(current_row, current_column)
          /\ UNCHANGED <<current_row, current_column, cpu_heading, cpu, ink>>
       \/ /\ argsInfo.cpu_flag
          /\ LET g == draw_cpu_graph(current_row + NUM_NEW_LINES, 1, argsInfo.samples)
             IN  /\ cpu_heading' = g.pos
                 /\ current_row' = g.row
                 /\ current_column' = g.col
                 /\ cpu' = save_position(g.row - 1, g.col + 1)
                 /\ ending_position' = save_position(g.row, g.col)
                 /\ ink' = ink \cup g.ink
    /\ UNCHANGED <<cellVars, argv, argsInfo, exit_code, scaling_factor, memory_heading, memory,
                   cpuVars, ev, memLastCol, sleepVars, coreVars, i>>

\* the reads of /proc/stat: the outcome and the fields after fscanf (nothing is
\* read when fopen fails; what is read is dropped when fclose fails)
Reads ==
    {<<"open_fail", NullSnap>>, <<"close_fail", NullSnap>>}
    \cup ({"parse_fail", "ok"} \X Snapshots)

\* one call of the tracker, as an event: the outcome of the read, the fields, the
\* value returned, the call before it, whether the readout was printed, the glyph
\* and the column of the glyph before it
TrackerCall(panel, outcome, s, glyph) ==
    [panel |-> panel, outcome |-> outcome, snap |-> s,
     ret |-> calculate_cpu_utilization(tracker, outcome, s).ret,
     prev |-> lastCall, call |-> IF calls < 2 THEN calls + 1 ELSE 2,
     printed |-> (panel = "cpu"), glyph |-> glyph,
     prevCol |-> IF panel = "cpu" THEN cpuLastCol ELSE 0]

\* what a call leaves for the next one to see
CallDone(outcome, s) ==
    /\ tracker' = calculate_cpu_utilization(tracker, outcome, s).t
    /\ lastCall' = [outcome |-> outcome, snap |-> IF outcome = "ok" THEN s ELSE NullSnap]
    /\ calls' = IF calls < 2 THEN calls + 1 ELSE 2

\* main, lines 774-781: the first call of the tracker, its value unused
WarmUp ==
    /\ pc = "warmup"
    /\ pc' = "loop"
    /\ \E rd \in Reads :
          /\ CallDone(rd[1], rd[2])
          /\ ev' = TrackerCall("warmup", rd[1], rd[2], NoPos)
    /\ i' = 0
    /\ UNCHANGED <<cellVars, argv, argsInfo, exit_code, layoutVars, cpuLastCol, memLastCol,
                   sleepVars, coreVars>>

\* x / y for fractions, y # 0
FracDiv(x, y) == Frac(x.num * y.den, x.den * y.num)

\* calculate_memory_used: first is its own sysinfo call, second the one of
\* get_total_memory, which ends the process when it fails; GiB
calculate_memory_used(first, second) ==
    IF ~first.ok THEN [exits |-> FALSE, ok |-> FALSE, ret |-> 0]
    ELSE IF ~second.ok THEN [exits |-> TRUE, ok |-> TRUE, ret |-> 0]
    ELSE [exits |-> FALSE, ok |-> TRUE, ret |-> second.totalram - first.freeram]

\* the row of the '#' of main, line 795
MemGlyphRow(memory_used) ==
    memory.row - Trunc(FracDiv(FracOfInt(memory_used), scaling_factor)) - 1

\* the row of the ':' of main, line 806
CpuGlyphRow(cpu_utilization) ==
    cpu.row - Trunc(Frac(cpu_utilization.num, cpu_utilization.den * 10)) - 1

\* a write column that skips a column
AdvanceColumn_by2(pos) == [pos EXCEPT !.col = @ + 2]

\* memory.col++ and cpu.col++ of main, lines 795 and 806
AdvanceColumn(pos) == [pos EXCEPT !.col = @ + 1]

\* the cells of len characters printed from (row, col) on
Cells(row, col, len) == {save_position(row, c) : c \in col..(col + len - 1)}

\* the integer part that %.2Lf prints for x, and the characters it prints
PrintedInt(x) == (200 * Abs(x.num) + x.den) \div (200 * x.den)
FixedLen(x) == (IF x.num < 0 THEN 1 ELSE 0) + NumDigits(PrintedInt(x)) + 3

\* the cells of the readout of the memory panel, lines 789 and 793: seven
\* blanks, then " <memory_used> GB"
MemReadout(memory_used) ==
    Cells(memory_heading.row, memory_heading.col, 7)
        \cup Cells(memory_heading.row, memory_heading.col, FixedLen(memory_used) + 4)

\* the cells of the readout of the CPU panel, line 802: " <cpu_utilization> %"
\* and ten blanks
CpuReadout(cpu_utilization) ==
    Cells(cpu_heading.row, cpu_heading.col, FixedLen(cpu_utilization) + 13)

\* the run is short enough for one of its glyphs to be followed
Tracked == argsInfo.samples <= MaxTracked

\* cells w are written, those of newGlyphs being the glyph of a sample: the
\* marked cell is written again when it is one of w, and while no cell is marked
\* the new glyph may become the marked one
Wrote(w, newGlyphs) ==
    /\ clobbered' = (clobbered \/ marked \in w)
    /\ marked' \in IF Tracked /\ marked = NoPos THEN {NoPos} \cup newGlyphs ELSE {marked}

\* main, lines 784-797
MemSample ==
    /\ pc = "loop"
    /\ i < argsInfo.samples
    /\ i < MaxIter
    /\ \/ /\ ~argsInfo.memory_flag
          /\ pc' = "cpu"
          /\ UNCHANGED <<exit_code, memory, ev, memLastCol, cellVars>>
       \/ /\ argsInfo.memory_flag
          /\ \E first \in SysinfoResults, second \in SysinfoResults :
                LET m == calculate_memory_used(first, second)
                IN  IF m.exits
                    THEN /\ pc' = "exit"
                         /\ exit_code' = 1
                         /\ UNCHANGED <<memory, ev, memLastCol, cellVars>>
                    ELSE /\ pc' = "cpu"
                         /\ ev' = [NoEvent EXCEPT
                                      !.panel = "memory",
                                      !.outcome = IF m.ok THEN "ok" ELSE "fail",
                                      !.ret = FracOfInt(m.ret),
                                      !.printed = TRUE,
                                      !.prevCol = memLastCol,
                                      !.glyph = save_position(MemGlyphRow(m.ret), memory.col)]
                         /\ memLastCol' = memory.col
                         /\ memory' = AdvanceColumn(memory)
                         /\ Wrote(MemReadout(FracOfInt(m.ret))
                                      \cup {save_position(MemGlyphRow(m.ret), memory.col)},
                                  {save_position(MemGlyphRow(m.ret), memory.col)})
                         /\ UNCHANGED exit_code
    /\ UNCHANGED <<argv, argsInfo, current_row, current_column, scaling_factor,
                   memory_heading, cpu_heading, cpu, ending_position, ink, cpuVars,
                   sleepVars, coreVars, i>>

\* main, lines 798-808
CpuSample ==
    /\ pc = "cpu"
    /\ pc' = "sleep"
    /\ \/ /\ ~argsInfo.cpu_flag
          /\ UNCHANGED <<cpu, cpuVars, ev, cellVars>>
       \/ /\ argsInfo.cpu_flag
          /\ \E rd \in Reads :
                LET r == calculate_cpu_utilization(tracker, rd[1], rd[2])
                IN  /\ CallDone(rd[1], rd[2])
                    /\ ev' = TrackerCall("cpu", rd[1], rd[2],
                                         save_position(CpuGlyphRow(r.ret), cpu.col))
                    /\ cpuLastCol' = cpu.col
                    /\ cpu' = AdvanceColumn(cpu)
                    /\ Wrote(CpuReadout(r.ret)
                                 \cup {save_position(CpuGlyphRow(r.ret), cpu.col)},
                             {save_position(CpuGlyphRow(r.ret), cpu.col)})
    /\ UNCHANGED <<argv, argsInfo, exit_code, current_row, current_column, scaling_factor,
                   memory_heading, memory, cpu_heading, ending_position, ink, memLastCol,
                   sleepVars, coreVars, i>>

\* main, line 809 and the i++ of line 782
Sleep ==
    /\ pc = "sleep"
    /\ pc' = "loop"
    /\ slept' = ToUseconds(argsInfo.tdelay)
    /\ sleeps' = sleeps + 1
    /\ i' = i + 1
    /\ ev' = NoEvent
    /\ UNCHANGED <<cellVars, argv, argsInfo, exit_code, layoutVars, cpuVars, memLastCol, coreVars>>

\* main, lines 782 and 812: the loop ends
LoopExit ==
    /\ pc = "loop"
    /\ ~(i < argsInfo.samples)
    /\ pc' = "cores"
    /\ ev' = NoEvent
    /\ ending_position' = save_position(current_row, 1)
    /\ UNCHANGED <<cellVars, argv, argsInfo, exit_code, current_row, current_column, scaling_factor,
                   memory_heading, memory, cpu_heading, cpu, ink, cpuVars, memLastCol,
                   sleepVars, coreVars, i>>

\* calculate_max_frequency: GHz, or the process ends
calculate_max_frequency(outcome, khz) ==
    IF outcome = "open_fail" THEN [exits |-> FALSE, ret |-> FracOfInt(0)]
    ELSE IF outcome = "ok" THEN [exits |-> FALSE, ret |-> Frac(khz, 1000000)]
    ELSE [exits |-> TRUE, ret |-> FracOfInt(0)]

\* main, lines 814-820.  Nothing is printed after this step, so the marked cell
\* is not followed further.
Cores ==
    /\ pc = "cores"
    /\ \/ /\ ~argsInfo.cores_flag
          /\ pc' = "finish"
          /\ UNCHANGED <<exit_code, current_row, current_column, ending_position, ink,
                         coreVars, clobbered>>
       \/ /\ argsInfo.cores_flag
          /\ \E outcome \in FreqOutcomes, khz \in FreqChoicesKHz, n \in CoresResults :
                LET f == calculate_max_frequency(outcome, khz)
                    g == coresGraph(n, 1, current_row + 1)
                IN  /\ freqRead' = outcome
                    /\ IF f.exits
                       THEN /\ pc' = "exit"
                            /\ exit_code' = 1
                            /\ UNCHANGED <<current_row, current_column, ending_position,
                                           ink, max_frequency, coresNumber, clobbered>>
                       ELSE /\ pc' = "finish"
                            /\ max_frequency' = f.ret
                            /\ coresNumber' = n
                            /\ current_column' = 1
                            /\ current_row' = g.pos.row
                            /\ ending_position' = g.pos
                            /\ ink' = ink \cup g.ink
                            /\ clobbered' =
                                   (clobbered \/ marked \in UNION {Cells(k.row, k.col, k.len) : k \in g.ink})
                            /\ UNCHANGED exit_code
    /\ marked' = NoPos
    /\ UNCHANGED <<argv, argsInfo, scaling_factor, memory_heading, memory, cpu_heading,
                   cpu, cpuVars, ev, memLastCol, sleepVars, i>>

\* main, lines 822-824: the cursor is parked, the structure freed, 0 returned
Finish ==
    /\ pc = "finish"
    /\ pc' = "done"
    /\ exit_code' = 0
    /\ UNCHANGED <<cellVars, argv, argsInfo, layoutVars, cpuVars, ev, memLastCol, sleepVars,
                   coreVars, i>>

Next ==
    \/ ParseArgs
    \/ ResetScreen
    \/ DrawMemory
    \/ DrawCpu
    \/ WarmUp
    \/ MemSample
    \/ CpuSample
    \/ Sleep
    \/ LoopExit
    \/ Cores
    \/ Finish

Spec == Init /\ [][Next]_vars

\* the parser alone, on the larger set of argument vectors
SpecArgs == InitArgs /\ [][ParseArgs]_vars

(***************************************************************************)
(* The claims.                                                             *)
(***************************************************************************)
Drawn(owner) == \E k \in ink : k.owner = owner
AxisCol(owner) == (CHOOSE k \in ink : k.owner = owner /\ k.what = "axis").col
Rows(owner) == {k.row : k \in {x \in ink : x.owner = owner}}
\* max(N, 20)
maxSamples == IF argsInfo.samples > 20 THEN argsInfo.samples ELSE 20
\* the process ended inside the sampling loop
AbortedInLoop == pc = "exit" /\ calls >= 1 /\ freqRead = "none"
AfterLoop == pc \in {"cores", "finish", "done"} \/ (pc = "exit" /\ freqRead # "none")
\* samples the panels have taken
MemSamplesDone == i + (IF pc \in {"cpu", "sleep"} THEN 1 ELSE 0)
CpuSamplesDone == i + (IF pc = "sleep" THEN 1 ELSE 0)
FailedRead == {"fail", "open_fail", "parse_fail", "close_fail"}

\* C1: with samples = N > 0 and tdelay = T > 0 the sampling loop performs exactly
\* N iterations (it is never left before), and before each iteration but the
\* first there has been one sleep per iteration done, each of T microseconds.
C1_Claim ==
    argsInfo.samples > 0 =>
        /\ ~AbortedInLoop
        /\ AfterLoop => i = argsInfo.samples
        /\ pc \in {"loop", "cpu", "sleep"} => sleeps = i
        /\ sleeps > 0 => <<slept[1], slept[2], 0, 0>> = argsInfo.tdelay

\* the value the formula of the tracker gives for two snapshots
FormulaHolds(ret, prev, now) ==
    LET busyDelta  == (TotalOf(now) - IdleOf(now)) - (TotalOf(prev) - IdleOf(prev))
        totalDelta == TotalOf(now) - TotalOf(prev)
    IN  IF busyDelta = 0 \/ totalDelta = 0 THEN ret.num = 0
        ELSE ret.num * totalDelta = busyDelta * 100 * ret.den

\* C2: a call in the loop that reads a snapshot, after a call that read one,
\* returns busyDelta / totalDelta * 100 of the two snapshots, and 0 when one of
\* the deltas is 0.
C2_Claim ==
    (ev.panel = "cpu" /\ ev.outcome = "ok" /\ ev.prev.outcome = "ok")
        => FormulaHolds(ev.ret, ev.prev.snap, ev.snap)

\* C3: the first call of the tracker returns 0 and stores the snapshot it read; a
\* second call that reads the same counters returns 0 too.
C3_Claim ==
    /\ ev.panel = "warmup" =>
          /\ ev.ret = FracOfInt(0)
          /\ ev.outcome = "ok" =>
                 /\ tracker.preTotalCPU = TotalOf(ev.snap)
                 /\ tracker.preIdleCPU = IdleOf(ev.snap)
    /\ (ev.panel = "cpu" /\ ev.call = 2 /\ ev.outcome = "ok" /\ ev.prev.outcome = "ok"
        /\ ev.snap = ev.prev.snap) => ev.ret = FracOfInt(0)

\* C4: every value the tracker returns lies between 0 and 100.
C4_Claim ==
    ev.panel \in {"warmup", "cpu"} =>
        (0 <= ev.ret.num /\ ev.ret.num <= 100 * ev.ret.den)

\* the write columns and glyph columns of both panels, the write column being at
\* most the axis column + maxSamples + slack
C5_Columns(slack) ==
    /\ Drawn("memory") =>
          /\ memory.col = AxisCol("memory") + 1 + MemSamplesDone
          /\ memory.col <= AxisCol("memory") + maxSamples + slack
          /\ ev.panel = "memory" =>
                 /\ ev.glyph.col = memory.col - 1
                 /\ ev.glyph.col >= ev.prevCol + 1
                 /\ ev.glyph.col <= AxisCol("memory") + maxSamples
    /\ Drawn("cpu") =>
          /\ cpu.col = AxisCol("cpu") + 1 + CpuSamplesDone
          /\ cpu.col <= AxisCol("cpu") + maxSamples + slack
          /\ ev.panel = "cpu" =>
                 /\ ev.glyph.col = cpu.col - 1
                 /\ ev.glyph.col >= ev.prevCol + 1
                 /\ ev.glyph.col <= AxisCol("cpu") + maxSamples

\* C5 as stated: in each panel the write column is one more for every sample
\* taken, no glyph is written left of the previous glyph's column + 1, and the
\* write column never exceeds the axis column + maxSamples.
C5_Claim == C5_Columns(0)

\* C5, amended: in each panel the write column is one more for every sample
\* taken, no glyph is written left of the previous glyph's column + 1, every
\* glyph is written at most at the axis column + maxSamples, and the write
\* column never exceeds the axis column + maxSamples + 1.
C5_Amended == C5_Columns(1)

\* a run of more than 20 samples has left the loop, both panels having written
\* their last glyph at the axis column + maxSamples
C5_Witness ==
    /\ pc = "cores" /\ argsInfo.samples > 20 /\ i = argsInfo.samples
    /\ Drawn("memory") /\ memLastCol = AxisCol("memory") + maxSamples
    /\ Drawn("cpu") /\ cpuLastCol = AxisCol("cpu") + maxSamples
    /\ memory.col = memLastCol + 1 /\ cpu.col = cpuLastCol + 1

\* C6: no failed read of a metric ends the run inside the sampling loop.
C6_Claim == ~AbortedInLoop

\* C7: a panel whose read failed in this iteration has written no glyph, has not
\* printed its readout and has not advanced its write column.
C7_Claim ==
    /\ (ev.panel = "memory" /\ ev.outcome \in FailedRead) =>
          (ev.glyph = NoPos /\ ~ev.printed /\ memory.col = AxisCol("memory") + 1 + i)
    /\ (ev.panel = "cpu" /\ ev.outcome \in FailedRead) =>
          (ev.glyph = NoPos /\ ~ev.printed /\ cpu.col = AxisCol("cpu") + 1 + i)

\* C8: when the maximum frequency cannot be read the cores panel is not drawn
\* and the run still ends with exit code 0.
C8_Claim ==
    freqRead \in {"open_fail", "parse_fail"} =>
        (~Drawn("cores") /\ pc # "exit" /\ (pc = "done" => exit_code = 0))

\* C9: the rows the memory panel, the CPU panel and the cores panel print their
\* heading, axis, baseline rule and boxes on are pairwise disjoint, the memory
\* panel above the CPU panel above the cores panel.
C9_Stacked ==
    /\ \A a \in Rows("memory"), b \in Rows("cpu") \cup Rows("cores") : a < b
    /\ \A a \in Rows("cpu"), b \in Rows("cores") : a < b

\* a finished run that drew all three panels, the cores panel with two grid rows
C9_Witness ==
    /\ pc = "done" /\ coresNumber > CoreCols
    /\ Drawn("memory") /\ Drawn("cpu") /\ Drawn("cores")

Named(s) == \E k \in 1..Len(argv) : argv[k] = s
Wide(ds) == DecValue(ds, <<0, 0, 0, 0, 0>>)
DigitsOf(s) == SelectSeq(s, isdigit)
\* the digits given with --samples= or --tdelay=, <<>> when the flag is not given
FlagDigits(prefix) ==
    IF \E k \in 1..Len(argv) : HasPrefix(argv[k], prefix)
    THEN LET k == CHOOSE k \in 1..Len(argv) : HasPrefix(argv[k], prefix)
         IN  DigitsOf(SubSeq(argv[k], Len(prefix) + 1, Len(argv[k])))
    ELSE <<>>
HasPositional(k) == Len(argv) >= k /\ argv[k] # <<>> /\ isPositional(argv[k])
\* the sample count and the delay the user supplied, on five limbs
SuppliedSamples ==
    IF HasPositional(1) THEN Wide(argv[1])
    ELSE IF FlagDigits(Str_samples) # <<>> THEN Wide(FlagDigits(Str_samples))
    ELSE IntLimbs(20)
SuppliedTdelay ==
    IF HasPositional(1) /\ HasPositional(2) THEN Wide(argv[2])
    ELSE IF FlagDigits(Str_tdelay) # <<>> THEN Wide(FlagDigits(Str_tdelay))
    ELSE IntLimbs(500000)

\* the panels enabled are those named, or all three when none is named
PanelsAsNamed ==
    IF ~Named(Str_memory) /\ ~Named(Str_cpu) /\ ~Named(Str_cores)
    THEN argsInfo.memory_flag /\ argsInfo.cpu_flag /\ argsInfo.cores_flag
    ELSE /\ argsInfo.memory_flag = Named(Str_memory)
         /\ argsInfo.cpu_flag = Named(Str_cpu)
         /\ argsInfo.cores_flag = Named(Str_cores)

\* C10: an accepted argument vector enables the panels it names, or all three when
\* it names none, and leaves samples and tdelay at the values supplied, or at 20
\* and 500000.
C10_Claim ==
    pc = "screen" =>
        /\ PanelsAsNamed
        /\ IntLimbs(argsInfo.samples) = SuppliedSamples
        /\ argsInfo.tdelay \o <<0>> = SuppliedTdelay

\* what an argument looks like to the user
IsDigits(a) == a # <<>> /\ isPositional(a)
IsPanelFlag(a) == a \in {Str_memory, Str_cpu, Str_cores}
IsFlagToken(a) == IsPanelFlag(a) \/ HasPrefix(a, Str_samples) \/ HasPrefix(a, Str_tdelay)
Count(prefix) == Cardinality({k \in 1..Len(argv) : HasPrefix(argv[k], prefix)})

PositionalAfterFlag ==
    \E j, k \in 1..Len(argv) : j < k /\ IsFlagToken(argv[j]) /\ IsDigits(argv[k])
FlagWithPositional ==
    \/ HasPositional(1) /\ Count(Str_samples) >= 1
    \/ HasPositional(1) /\ HasPositional(2) /\ Count(Str_tdelay) >= 1
FlagTwice == Count(Str_samples) >= 2 \/ Count(Str_tdelay) >= 2
UnknownToken == \E k \in 1..Len(argv) : ~IsFlagToken(argv[k]) /\ ~IsDigits(argv[k])
\* nothing has been rendered: the screen is not reset, no header, no panel
NothingRendered == ink = {} /\ current_row = 0 /\ current_column = 0 /\ calls = 0

\* C11: once parsed, an argument vector with a positional value after a flag, with
\* --samples= or --tdelay= next to its positional counterpart or given twice, or
\* with an unknown token has ended the process with a non-zero exit code, nothing
\* having been rendered.
C11_Claim ==
    (pc # "start" /\ (PositionalAfterFlag \/ FlagWithPositional \/ FlagTwice \/ UnknownToken))
        => (pc = "exit" /\ exit_code # 0 /\ exit_code # -1 /\ NothingRendered)

\* a vector of three arguments whose last one is --tdelay= after both positional
\* values, of no other fault, has been rejected
C11_Witness ==
    /\ pc = "exit" /\ exit_code = 1 /\ Len(argv) = 3
    /\ FlagWithPositional /\ HasPrefix(argv[3], Str_tdelay)
    /\ ~UnknownToken /\ ~FlagTwice /\ ~PositionalAfterFlag

\* a panel has written a glyph in this iteration
Sampled == ev.panel \in {"memory", "cpu"} /\ ev.glyph # NoPos
\* value / scaleFactor of the sample, and the rows the glyph is above the rule
Quotient ==
    IF ev.panel = "memory" THEN FracDiv(ev.ret, scaling_factor)
    ELSE Frac(ev.ret.num, ev.ret.den * 10)
BaseRow == IF ev.panel = "memory" THEN memory.row ELSE cpu.row
WriteCol == IF ev.panel = "memory" THEN memory.col ELSE cpu.col
RowOffset == BaseRow - 1 - ev.glyph.row
\* the value is in the range of the panel: 0 to total memory, 0 to 100
InPanelRange == 0 <= Quotient.num /\ Quotient.num <= 10 * Quotient.den
\* the glyph is in the column written, its row offset k being the integer with
\* k - half/2 <= value / scaleFactor < k + 1 - half/2
C12_Rows(half) ==
    (Sampled /\ InPanelRange) =>
        /\ ev.glyph.col = WriteCol - 1
        /\ (2 * RowOffset - half) * Quotient.den <= 2 * Quotient.num
        /\ 2 * Quotient.num < (2 * RowOffset + 2 - half) * Quotient.den

\* C12 as stated: the glyph of a sample whose value is in the panel's range is
\* written in the current write column at row axisBaseRow - rowOffset - 1,
\* rowOffset being value / scaleFactor rounded to the nearest integer.
C12_Claim == C12_Rows(1)

\* C12, amended: the glyph of a sample whose value is in the panel's range is
\* written in the current write column at row axisBaseRow - rowOffset - 1,
\* rowOffset being value / scaleFactor rounded down (its integer part).
C12_Amended == C12_Rows(0)

\* a CPU sample of 75 percent has been drawn 7 rows above the lowest row
C12_Witness ==
    /\ Sampled /\ ev.panel = "cpu" /\ ev.ret = FracOfInt(75)
    /\ ev.glyph = save_position(cpu.row - 8, cpu.col - 1)

\* C13: a sample of an enabled panel writes one glyph cell, and no cell that holds
\* the glyph of an earlier sample is written again by a later operation of the
\* run (a readout, a later glyph of either panel, the cores panel).
C13_Claim ==
    /\ ev.panel \in {"memory", "cpu"} => ev.glyph # NoPos
    /\ ~clobbered

\* the lines of the boxes of the cores panel ("+---+" and "|   |", 5 characters),
\* the boxes as <<grid row, grid column>>, and the grid rows
BoxLines == {k \in ink : k.owner = "cores" /\ k.len = 5}
Boxes == {<<k.what[2], k.what[3]>> : k \in BoxLines}
GridRows == {b[1] : b \in Boxes}
BoxesOf(r) == {b \in Boxes : b[1] = r}
\* ceil(n / 4): the least m with 4 * m >= n
CeilQuarter(n) == CHOOSE m \in 0..n : 4 * m >= n /\ (m = 0 \/ 4 * (m - 1) < n)

\* C14: a cores panel drawn for n >= 0 cores has ceil(n/4) grid rows and n boxes
\* of 3 lines each, 4 boxes in every grid row but the last and the remainder in
\* the last, and the lines of a grid row lie above those of the next.
C14_Claim ==
    (Drawn("cores") /\ coresNumber >= 0) =>
        LET m == CeilQuarter(coresNumber)
        IN  /\ GridRows = 0..(m - 1)
            /\ Cardinality(Boxes) = coresNumber
            /\ Cardinality(BoxLines) = 3 * coresNumber
            /\ \A r \in GridRows :
                   Cardinality(BoxesOf(r)) = IF r < m - 1 THEN 4 ELSE coresNumber - 4 * (m - 1)
            /\ \A b \in Boxes :
                   \E top \in BoxLines :
                      /\ <<top.what[2], top.what[3]>> = b
                      /\ {k.row : k \in {x \in BoxLines : <<x.what[2], x.what[3]>> = b}}
                             = {top.row, top.row + 1, top.row + 2}
            /\ \A a, b \in BoxLines : a.what[2] < b.what[2] => a.row < b.row

\* the cores panel of 6 cores has been drawn: 2 grid rows, of 4 and of 2 boxes
C14_Witness ==
    /\ pc = "done" /\ coresNumber = 6 /\ Drawn("cores")
    /\ Cardinality(BoxesOf(0)) = 4 /\ Cardinality(BoxesOf(1)) = 2

\* C15: after a successful parse the stored sample count is positive and is the
\* number the user supplied, positionally or with --samples=, however large.
C15_Claim ==
    (pc = "screen" /\ argsInfo.updated_sample) =>
        /\ argsInfo.samples > 0
        /\ IntLimbs(argsInfo.samples) = SuppliedSamples
====
